---- MODULE Spec2Model ----
(***************************************************************************)
(* Model of auto_relatorio: period resolution, the export loop with value  *)
(* replacement and consecutive-duplicate suppression, the CSV written and  *)
(* read back, and the per-question aggregation that feeds the pie charts.  *)
(*                                                                         *)
(* Strings are sequences of one-character strings, so that TrimSpace,      *)
(* Contains, SplitN, the CSV quoting and the time layouts are computed     *)
(* character by character as the Go code computes them.                    *)
(***************************************************************************)
EXTENDS Integers, Sequences, FiniteSets, TLC

VARIABLES
    pc,               \* position of the run
    start, end, month, year,          \* --start --end --month --year
    periodStart, periodEnd, err,      \* result of resolvePeriod
    dedupe, dedupeSec, repl, bom,     \* --dedupe --dedupe-sec --replace --bom
    pptxOut,          \* --pptx
    pptxFrom,         \* --pptx-from
    read,             \* rows fetched so far by rows.Next() (history)
    file,             \* the CSV file: BOM flag, header record, data lines
    count, skipped,
    prevPaciente, prevCreated, prevCreatedTime, hasPrev,
    questionCols, rpos, counts, slides,   \* buildPiePNGsFromCSV
    fn, arg, res      \* a normalizer applied to an argument, repeatedly

vars == <<pc, start, end, month, year, periodStart, periodEnd, err,
          dedupe, dedupeSec, repl, bom, pptxOut, pptxFrom,
          read, file, count, skipped,
          prevPaciente, prevCreated, prevCreatedTime, hasPrev,
          questionCols, rpos, counts, slides, fn, arg, res>>

periodVars == <<start, end, month, year, periodStart, periodEnd, err>>
flagVars == <<dedupe, dedupeSec, repl, bom, pptxOut, pptxFrom>>
loopVars == <<read, file, count, skipped,
              prevPaciente, prevCreated, prevCreatedTime, hasPrev>>
aggVars == <<questionCols, rpos, counts, slides>>
normVars == <<fn, arg, res>>

(***************************************************************************)
(* Bounds of the model.                                                    *)
(***************************************************************************)
MaxLen == 3          \* longest argument of the normalizers
MaxRows == 3         \* rows of the result set in the dedupe runs
MaxReportRows == 2   \* rows of the result set in the report runs
MaxCount == 3        \* largest count of a label in the rendered distributions
MaxFromLines == 3    \* lines after the header of a file given with --pptx-from

(***************************************************************************)
(* strings                                                                 *)
(***************************************************************************)
Min(S) == CHOOSE x \in S : \A y \in S : x <= y

Empty == <<>>

\* A string is the sequence of its characters.  A character of ASCII is
\* written as it is, and a character outside ASCII as "U+" and the four
\* hexadecimal digits of its code ("U+00E3" is a with tilde), so that the
\* strings of the model do not depend on the encoding this file is read in.

\* unicode.IsSpace: tab, line feed, vertical tab, form feed, carriage return,
\* space, U+0085 and U+00A0 of Latin-1, and the characters of the property
\* White_Space beyond it
WhiteSpace ==
    {"\t", "\n", "", "\f", "\r", " ", "U+0085", "U+00A0", "U+1680",
     "U+2000", "U+2001", "U+2002", "U+2003", "U+2004", "U+2005", "U+2006",
     "U+2007", "U+2008", "U+2009", "U+200A", "U+2028", "U+2029", "U+202F",
     "U+205F", "U+3000"}

IsSpace(c) == c \in WhiteSpace

\* strings.TrimSpace
TrimSpace(s) ==
    LET keep == {i \in 1..Len(s) : ~IsSpace(s[i])}
    IN  IF keep = {} THEN Empty
        ELSE SubSeq(s, CHOOSE i \in keep : \A j \in 1..(i - 1) : IsSpace(s[j]),
                       CHOOSE i \in keep : \A j \in (i + 1)..Len(s) : IsSpace(s[j]))

\* strings.Contains(s, c) for a one-character c
Contains(s, c) == \E i \in 1..Len(s) : s[i] = c

\* a faulty variant of BeforeFirst that keeps the whole text (no truncation of "1.0")
BeforeFirstKeepAll(s, c) == s

\* strings.SplitN(s, c, 2)[0]: the text before the first c
BeforeFirst(s, c) ==
    LET at == {i \in 1..Len(s) : s[i] = c}
    IN  IF at = {} THEN s ELSE SubSeq(s, 1, Min(at) - 1)

(***************************************************************************)
(* the value normalizers                                                   *)
(***************************************************************************)
Ruim == <<"R", "u", "i", "m">>
Boa == <<"B", "o", "a">>
Regular == <<"R", "e", "g", "u", "l", "a", "r">>
Excelente == <<"E", "x", "c", "e", "l", "e", "n", "t", "e">>
NaoUtilizei == <<"N", "U+00E3", "o", " ", "u", "t", "i", "l", "i", "z", "e", "i">>
Sim == <<"S", "i", "m">>
Nao == <<"N", "U+00E3", "o">>
Labels == {Ruim, Boa, Regular, Excelente, NaoUtilizei, Sim, Nao}

EdnaFullName ==
    <<"E", "d", "n", "a", " ", "d", "a", "s", " ", "G", "r", "a", "U+00E7", "a", "s",
      " ", "P", "r", "a", "t", "e", "s", " ", "C", "r", "u", "z">>

\* the integer part replaceValue and mapCadastrador look up
IntegerPart(s) == IF Contains(s, ".") THEN BeforeFirst(s, ".") ELSE s

replaceValue(v) ==
    LET s0 == TrimSpace(v)
        s == IntegerPart(s0)
    IN  IF s0 = Empty THEN v
        ELSE CASE s = <<"1">> -> Ruim
               [] s = <<"2">> -> Boa
               [] s = <<"3">> -> Regular
               [] s = <<"4">> -> Excelente
               [] s = <<"5">> -> NaoUtilizei
               [] s = <<"6">> -> Sim
               [] s = <<"7">> -> Nao
               [] OTHER -> v

mapCadastrador(v) ==
    LET s0 == TrimSpace(v)
        s == IntegerPart(s0)
    IN  IF s0 = Empty THEN v
        ELSE IF s = <<"5">> THEN EdnaFullName ELSE v

(***************************************************************************)
(* time.Time                                                               *)
(*                                                                         *)
(* A time is [day, sec, off]: the civil day (days since 1970-01-01) and    *)
(* the second of that day on the wall clock of its zone, and the zone's    *)
(* offset from UTC in seconds. time.Local is a zone of fixed offset.       *)
(***************************************************************************)
LocalOffsetHours == -3
LocalOffset == LocalOffsetHours * 3600

SecondsPerDay == 24 * 3600

\* days since 1970-01-01 of the civil date y-m-d (proleptic Gregorian)
DaysFromCivil(y, m, d) ==
    LET yy == IF m <= 2 THEN y - 1 ELSE y
        era == yy \div 400
        yoe == yy - era * 400
        mp == IF m > 2 THEN m - 3 ELSE m + 9
        doy == (153 * mp + 2) \div 5 + d - 1
        doe == yoe * 365 + yoe \div 4 - yoe \div 100 + doy
    IN  era * 146097 + doe - 719468

\* the civil date [y, m, d] of a day number
CivilFromDays(z) ==
    LET zz == z + 719468
        era == zz \div 146097
        doe == zz - era * 146097
        yoe == (doe - doe \div 1460 + doe \div 36524 - doe \div 146096) \div 365
        doy == doe - (365 * yoe + yoe \div 4 - yoe \div 100)
        mp == (5 * doy + 2) \div 153
        d == doy - (153 * mp + 2) \div 5 + 1
        m == IF mp < 10 THEN mp + 3 ELSE mp - 9
    IN  [y |-> IF m <= 2 THEN yoe + era * 400 + 1 ELSE yoe + era * 400,
         m |-> m, d |-> d]

NanosPerSecond == 1000 * 1000 * 1000

\* time.Time{}: January 1, year 1, 00:00:00 UTC.  A time is the day and the
\* second of the day on the wall clock of its zone, the nanosecond, and the
\* offset of the zone
ZeroTime == [day |-> DaysFromCivil(1, 1, 1), sec |-> 0, nsec |-> 0, off |-> 0]

\* the instant of a time as [day, sec, nsec] in UTC
Instant(t) ==
    LET total == t.sec - t.off
    IN  [day |-> t.day + total \div SecondsPerDay, sec |-> total % SecondsPerDay,
         nsec |-> t.nsec]

\* t.IsZero()
IsZero(t) == Instant(t) = Instant(ZeroTime)

\* e.After(s)
After(e, s) ==
    LET a == Instant(e)
        b == Instant(s)
    IN  \/ a.day > b.day
        \/ a.day = b.day /\ a.sec > b.sec
        \/ a.day = b.day /\ a.sec = b.sec /\ a.nsec > b.nsec

\* e.Before(s)
Before(e, s) == After(s, e)

\* a faulty variant of After that also accepts an equal instant
AfterOrEqual(e, s) == ~After(s, e)

\* A time.Duration is a count of nanoseconds in 64 bits; here it is
\* [days, sec, nsec] with 0 <= sec < 86400 and 0 <= nsec < 10^9, the days
\* carrying the sign.  The largest is 2^63 - 1 ns, the smallest -2^63 ns.
MaxDuration == [days |-> 106751, sec |-> 85636, nsec |-> 854775807]
MinDuration == [days |-> -106752, sec |-> 763, nsec |-> 145224192]

\* d <= e of two durations
DurationLE(d, e) ==
    \/ d.days < e.days
    \/ d.days = e.days /\ d.sec < e.sec
    \/ d.days = e.days /\ d.sec = e.sec /\ d.nsec <= e.nsec

\* d < e of two durations
DurationLT(d, e) == DurationLE(d, e) /\ d # e

\* time.Duration(n) * time.Second
Seconds(n) == [days |-> n \div SecondsPerDay, sec |-> n % SecondsPerDay, nsec |-> 0]

\* a.Sub(b); the result is the largest or the smallest duration when the
\* difference does not fit
Sub(a, b) ==
    LET x == Instant(a)
        y == Instant(b)
        dn == x.nsec - y.nsec
        ds == (x.sec - y.sec) + (IF dn < 0 THEN -1 ELSE 0)
        d == [days |-> (x.day - y.day) + (IF ds < 0 THEN -1 ELSE 0),
              sec |-> IF ds < 0 THEN ds + SecondsPerDay ELSE ds,
              nsec |-> IF dn < 0 THEN dn + NanosPerSecond ELSE dn]
    IN  IF ~DurationLE(d, MaxDuration) THEN MaxDuration
        ELSE IF ~DurationLE(MinDuration, d) THEN MinDuration
        ELSE d

\* a faulty variant of NormMonth that clamps the month and carries nothing into the year
NormMonthNoCarry(y, m) ==
    [y |-> y, m |-> IF m > 12 THEN 12 ELSE IF m < 1 THEN 1 ELSE m]

\* the month and the year time.Date normalizes an out-of-range month to
NormMonth(y, m) == [y |-> y + (m - 1) \div 12, m |-> ((m - 1) % 12) + 1]

\* time.Date(y, m, d, h, mi, s, ns, loc), loc of offset off; out-of-range
\* values are normalized as Go does
Date(y, m, d, h, mi, s, ns, off) ==
    LET n == NormMonth(y, m)
        total == h * 3600 + mi * 60 + s + ns \div NanosPerSecond
    IN  [day |-> DaysFromCivil(n.y, n.m, 1) + (d - 1) + total \div SecondsPerDay,
         sec |-> total % SecondsPerDay,
         nsec |-> ns % NanosPerSecond,
         off |-> off]

\* t.AddDate(years, months, days)
AddDate(t, years, months, days) ==
    LET c == CivilFromDays(t.day)
    IN  Date(c.y + years, c.m + months, c.d + days, 0, 0, t.sec, t.nsec, t.off)

(***************************************************************************)
(* time layouts                                                            *)
(***************************************************************************)
Digits == <<"0", "1", "2", "3", "4", "5", "6", "7", "8", "9">>

IsDigit(c) == \E i \in 1..10 : Digits[i] = c

DigitVal(c) == (CHOOSE i \in 1..10 : Digits[i] = c) - 1

\* n written with w digits, zero padded
Pad(n, w) == [i \in 1..w |-> Digits[((n \div (10 ^ (w - i))) % 10) + 1]]

AllDigits(s, from, to) == \A i \in from..to : IsDigit(s[i])

RECURSIVE NumAt(_, _, _)
\* the number written in s[from..to]
NumAt(s, from, to) ==
    IF to < from THEN 0 ELSE NumAt(s, from, to - 1) * 10 + DigitVal(s[to])

IsLeap(y) == (y % 4 = 0 /\ y % 100 # 0) \/ y % 400 = 0

DaysIn(y, m) ==
    IF m = 2 THEN (IF IsLeap(y) THEN 29 ELSE 28)
    ELSE IF m \in {4, 6, 9, 11} THEN 30 ELSE 31

\* t.Format("2006-01-02 15:04:05")
FormatCreated(t) ==
    LET c == CivilFromDays(t.day)
    IN  Pad(c.y, 4) \o <<"-">> \o Pad(c.m, 2) \o <<"-">> \o Pad(c.d, 2) \o <<" ">>
        \o Pad(t.sec \div 3600, 2) \o <<":">> \o Pad((t.sec \div 60) % 60, 2)
        \o <<":">> \o Pad(t.sec % 60, 2)

\* getnum(value, fixed), value being s from position i: a number of two
\* digits, or of one digit when fixed is false and no second digit follows;
\* [ok, n, next]
getnum(s, i, fixed) ==
    IF i > Len(s) \/ ~IsDigit(s[i]) THEN [ok |-> FALSE, n |-> 0, next |-> i]
    ELSE IF i + 1 > Len(s) \/ ~IsDigit(s[i + 1])
    THEN [ok |-> ~fixed, n |-> DigitVal(s[i]), next |-> i + 1]
    ELSE [ok |-> TRUE, n |-> NumAt(s, i, i + 1), next |-> i + 2]

RECURSIVE cutspace(_, _)
\* cutspace: the first position from i that holds no blank
cutspace(s, i) == IF i <= Len(s) /\ s[i] = " " THEN cutspace(s, i + 1) ELSE i

\* skip(value, prefix) for a prefix of one character c of the layout: a blank
\* of the layout takes every blank of the text, and needs one unless the text
\* has ended; any other character takes itself; [ok, next]
skip(s, i, c) ==
    IF c = " "
    THEN [ok |-> ~(i <= Len(s) /\ s[i] # " "), next |-> cutspace(s, i)]
    ELSE [ok |-> i <= Len(s) /\ s[i] = c, next |-> i + 1]

RECURSIVE DigitsEnd(_, _)
\* the first position from i that holds no digit
DigitsEnd(s, i) == IF i <= Len(s) /\ IsDigit(s[i]) THEN DigitsEnd(s, i + 1) ELSE i

\* parseNanoseconds(value, nbytes), value being s from position i, where a
\* period or comma stands: the digits after it, nine of them at most, as
\* nanoseconds
parseNanoseconds(s, i, nbytes) ==
    LET k == (IF nbytes > 10 THEN 10 ELSE nbytes) - 1
    IN  NumAt(s, i + 1, i + k) * (10 ^ (9 - k))

\* a fraction of a second that the layout does not have, at position i:
\* [nsec, next]
Fraction(s, i) ==
    IF i + 1 <= Len(s) /\ s[i] \in {".", ","} /\ IsDigit(s[i + 1])
    THEN LET n == DigitsEnd(s, i + 2) - i
         IN  [nsec |-> parseNanoseconds(s, i, n), next |-> i + n]
    ELSE [nsec |-> 0, next |-> i]

\* the element Z07:00 of a layout at position i: Z, or a sign and hh:mm with
\* hh up to 24 and mm up to 60; [ok, off, next]
Zone(s, i) ==
    IF i <= Len(s) /\ s[i] = "Z" THEN [ok |-> TRUE, off |-> 0, next |-> i + 1]
    ELSE IF Len(s) < i + 5 THEN [ok |-> FALSE, off |-> 0, next |-> i]
    ELSE IF s[i + 3] # ":" THEN [ok |-> FALSE, off |-> 0, next |-> i]
    ELSE LET hr == getnum(s, i + 1, TRUE)
             mm == getnum(s, i + 4, TRUE)
             offset == (hr.n * 60 + mm.n) * 60
         IN  [ok |-> /\ hr.ok /\ mm.ok /\ hr.n <= 24 /\ mm.n <= 60
                     /\ s[i] \in {"+", "-"},
              off |-> IF s[i] = "-" THEN -offset ELSE offset,
              next |-> i + 6]

NoTime == [time |-> ZeroTime, ok |-> FALSE]

\* time.Parse and time.ParseInLocation on the layouts 2006-01-02 15:04:05
\* (sep a blank, no zone, the time in the zone of offset local) and
\* 2006-01-02T15:04:05Z07:00 (sep T, zoned): [time, ok].  Every text the
\* fast path of time.Parse for RFC3339 takes, the layout parser takes too,
\* with the same time.
Parse(s, sep, zoned, local) ==
    IF ~(/\ Len(s) >= 4 /\ AllDigits(s, 1, 4)
         /\ skip(s, 5, "-").ok
         /\ getnum(s, 6, TRUE).ok /\ NumAt(s, 6, 7) \in 1..12
         /\ skip(s, 8, "-").ok
         /\ getnum(s, 9, TRUE).ok)
    THEN NoTime
    ELSE LET yyyy == NumAt(s, 1, 4)
             mon == NumAt(s, 6, 7)
             day == NumAt(s, 9, 10)
             gap == skip(s, 11, sep)
             hour == getnum(s, gap.next, FALSE)
             min == getnum(s, hour.next + 1, TRUE)
             sec == getnum(s, min.next + 1, TRUE)
             frac == Fraction(s, sec.next)
             zone == IF zoned THEN Zone(s, frac.next)
                     ELSE [ok |-> TRUE, off |-> local, next |-> frac.next]
         IN  IF /\ gap.ok
                /\ hour.ok /\ hour.n < 24
                /\ skip(s, hour.next, ":").ok
                /\ min.ok /\ min.n < 60
                /\ skip(s, min.next, ":").ok
                /\ sec.ok /\ sec.n < 60
                /\ zone.ok
                /\ zone.next = Len(s) + 1
                /\ day \in 1..DaysIn(yyyy, mon)
             THEN [time |-> Date(yyyy, mon, day, hour.n, min.n, sec.n, frac.nsec,
                                 zone.off),
                   ok |-> TRUE]
             ELSE NoTime

\* parseCreated: time.ParseInLocation("2006-01-02 15:04:05", TrimSpace(s), time.Local)
parseCreated(s) == Parse(TrimSpace(s), " ", FALSE, LocalOffset)

\* time.Parse(time.RFC3339, s)
parseRFC3339(s) == Parse(s, "T", TRUE, 0)

(***************************************************************************)
(* rows of the result set and the 24-field record                          *)
(*                                                                         *)
(* Go indexes a record from 0; Fld(i) is the position of Go's record[i].   *)
(***************************************************************************)
Fld(i) == i + 1

NumQuestoes == 20
NumFields == 24

Null == [Valid |-> FALSE, String |-> Empty]
Str(s) == [Valid |-> TRUE, String |-> s]
At(t) == [Valid |-> TRUE, Time |-> t]

nullToString(ns) == IF ns.Valid THEN ns.String ELSE Empty

\* a row is [num_andar, nome_paciente, questoes, created, cadastrador]
scanRowToStrings(row) ==
    <<nullToString(row.num_andar), nullToString(row.nome_paciente)>>
    \o [i \in 1..NumQuestoes |-> nullToString(row.questoes[i])]
    \o <<IF row.created.Valid THEN FormatCreated(row.created.Time) ELSE Empty,
         mapCadastrador(nullToString(row.cadastrador))>>

\* questao16 and questao20 are free text: record[17] and record[21]
IsFreeText(i) == i = 17 \/ i = 21

applyReplacements(record) ==
    IF Len(record) < NumFields THEN record
    ELSE [k \in 1..Len(record) |->
            IF \E i \in 2..21 : k = Fld(i) /\ ~IsFreeText(i)
            THEN replaceValue(record[k])
            ELSE record[k]]

(***************************************************************************)
(* encoding/csv with Comma = ';'.  A file is kept as its lines, each       *)
(* without the "\n" that ends it.  A record whose field holds a line break *)
(* spans as many lines as the breaks it holds, and one more.               *)
(***************************************************************************)
Comma == ";"
Quote == "\""

fieldNeedsQuotes(field) ==
    IF field = Empty THEN FALSE
    ELSE IF field = <<"\\", ".">> THEN TRUE
    ELSE IF \E i \in 1..Len(field) : field[i] \in {Comma, Quote, "\r", "\n"} THEN TRUE
    ELSE IsSpace(field[1])

RECURSIVE Escaped(_)
\* the field with every quote doubled
Escaped(field) ==
    IF field = Empty THEN Empty
    ELSE (IF Head(field) = Quote THEN <<Quote, Quote>> ELSE <<Head(field)>>)
         \o Escaped(Tail(field))

writeField(field) ==
    IF fieldNeedsQuotes(field) THEN <<Quote>> \o Escaped(field) \o <<Quote>> ELSE field

RECURSIVE JoinFields(_, _, _)
\* the fields from position a to position b, a Comma before each but the
\* first; the two halves are joined, which gives the text of the loop over
\* the fields
JoinFields(fields, a, b) ==
    IF a > b THEN Empty
    ELSE IF a = b THEN writeField(fields[a])
    ELSE JoinFields(fields, a, (a + b) \div 2) \o <<Comma>>
         \o JoinFields(fields, (a + b) \div 2 + 1, b)

\* csv.Writer.Write(record): the text written before the "\n" that ends the
\* record; a line break of a quoted field is written as it is
csvWrite(record) == JoinFields(record, 1, Len(record))

RECURSIVE Lines(_)
\* the lines a text makes in a file: it is cut at every "\n"
Lines(text) ==
    IF ~Contains(text, "\n") THEN <<text>>
    ELSE LET k == CHOOSE i \in 1..Len(text) :
                      text[i] = "\n" /\ \A j \in 1..(i - 1) : text[j] # "\n"
         IN  <<SubSeq(text, 1, k - 1)>> \o Lines(SubSeq(text, k + 1, Len(text)))

\* the lines of a file after csv.Writer.Write(record)
WriteLines(lines, record) == lines \o Lines(csvWrite(record))

RECURSIVE QuotedField(_, _, _)
\* the quoted field whose text starts at line[j], acc read so far:
\* [ok, open, field, next, more], next the position after the field's
\* separator, more whether a separator ended it and open whether the text
\* ended before the quote that closes the field
QuotedField(line, j, acc) ==
    IF j > Len(line)
    THEN [ok |-> FALSE, open |-> TRUE, field |-> acc, next |-> j, more |-> FALSE]
    ELSE IF line[j] # Quote THEN QuotedField(line, j + 1, Append(acc, line[j]))
    ELSE IF j = Len(line)
    THEN [ok |-> TRUE, open |-> FALSE, field |-> acc, next |-> j + 1, more |-> FALSE]
    ELSE IF line[j + 1] = Quote THEN QuotedField(line, j + 2, Append(acc, Quote))
    ELSE IF line[j + 1] = Comma
    THEN [ok |-> TRUE, open |-> FALSE, field |-> acc, next |-> j + 2, more |-> TRUE]
    ELSE [ok |-> FALSE, open |-> FALSE, field |-> acc, next |-> j, more |-> FALSE]

\* the field that starts at line[i]
FieldAt(line, i) ==
    IF i <= Len(line) /\ line[i] = Quote THEN QuotedField(line, i + 1, Empty)
    ELSE LET more == \E k \in i..Len(line) : line[k] = Comma
             stop == IF more
                     THEN CHOOSE k \in i..Len(line) :
                              line[k] = Comma /\ \A j \in i..(k - 1) : line[j] # Comma
                     ELSE Len(line) + 1
             text == SubSeq(line, i, stop - 1)
         IN  [ok |-> ~Contains(text, Quote), open |-> FALSE, field |-> text,
              next |-> stop + 1, more |-> more]

RECURSIVE FieldsFrom(_, _)
FieldsFrom(line, i) ==
    LET f == FieldAt(line, i)
    IN  IF ~f.ok THEN [ok |-> FALSE, open |-> f.open, fields |-> <<>>]
        ELSE IF ~f.more THEN [ok |-> TRUE, open |-> FALSE, fields |-> <<f.field>>]
        ELSE LET rest == FieldsFrom(line, f.next)
             IN  [ok |-> rest.ok, open |-> rest.open,
                  fields |-> <<f.field>> \o rest.fields]

\* csv.Reader.Read() of one non-empty line: [ok, open, fields]
csvRead(line) == FieldsFrom(line, 1)

\* csv.Reader.readLine: a line without the "\r" that stands at its end
readLine(line) ==
    IF line # Empty /\ line[Len(line)] = "\r" THEN SubSeq(line, 1, Len(line) - 1)
    ELSE line

RECURSIVE readRecord(_, _, _)
\* csv.Reader.readRecord, text being what lines[from..i] hold: a quoted field
\* that is open at the end of a line goes on in the next line, and is an
\* error at the end of the file.  [ok, fields, next], next the line after
\* the record
readRecord(lines, i, text) ==
    LET r == csvRead(text)
    IN  IF r.open /\ i < Len(lines)
        THEN readRecord(lines, i + 1, text \o <<"\n">> \o readLine(lines[i + 1]))
        ELSE [ok |-> r.ok, fields |-> r.fields, next |-> i + 1]

RECURSIVE csvReaderRead(_, _)
\* csv.Reader.Read() with lines[i] the next line of the file; empty lines
\* are skipped.  [eof, ok, fields, next]
csvReaderRead(lines, i) ==
    IF i > Len(lines) THEN [eof |-> TRUE, ok |-> TRUE, fields |-> <<>>, next |-> i]
    ELSE IF readLine(lines[i]) = Empty THEN csvReaderRead(lines, i + 1)
    ELSE LET r == readRecord(lines, i, readLine(lines[i]))
         IN  [eof |-> FALSE, ok |-> r.ok, fields |-> r.fields, next |-> r.next]

(***************************************************************************)
(* resolvePeriod                                                           *)
(***************************************************************************)
MinYear == 2000
MaxYear == 2100

NoError == "nil"
NoPeriod == [s |-> ZeroTime, e |-> ZeroTime]

Failed(msg) == [s |-> ZeroTime, e |-> ZeroTime, err |-> msg]

\* the check resolvePeriod makes of an explicit pair
EndAfterStart(e, s) == After(e, s)

\* now is time.Now(), read when neither style is given
resolvePeriod(st, en, mo, yr, now) ==
    IF st # Empty \/ en # Empty
    THEN IF st = Empty \/ en = Empty THEN Failed("use both --start and --end")
         ELSE LET s == parseRFC3339(st)
                  e == parseRFC3339(en)
              IN  IF ~s.ok THEN Failed("parse --start")
                  ELSE IF ~e.ok THEN Failed("parse --end")
                  ELSE IF ~EndAfterStart(e.time, s.time)
                       THEN Failed("--end must be after --start")
                  ELSE [s |-> s.time, e |-> e.time, err |-> NoError]
    ELSE IF mo = 0 /\ yr = 0
    THEN LET c == CivilFromDays(now.day)
             firstThisMonth == Date(c.y, c.m, 1, 0, 0, 0, 0, now.off)
             firstPrevMonth == AddDate(firstThisMonth, 0, -1, 0)
         IN  [s |-> firstPrevMonth, e |-> firstThisMonth, err |-> NoError]
    ELSE IF mo < 1 \/ mo > 12 THEN Failed("--month must be 1..12")
    ELSE IF yr < MinYear \/ yr > MaxYear
         THEN Failed("--year must be between 2000 and 2100")
    ELSE LET s == Date(yr, mo, 1, 0, 0, 0, 0, LocalOffset)
             e == AddDate(s, 0, 1, 0)
         IN  [s |-> s, e |-> e, err |-> NoError]

(***************************************************************************)
(* the export loop of main                                                 *)
(***************************************************************************)
\* the header record, one sequence of characters per title
header ==
    <<
      \* ANDAR
      <<"A", "N", "D", "A", "R">>,
      \* Paciente
      <<"P", "a", "c", "i", "e", "n", "t", "e">>,
      \* ATENDIMENTO DE RECEPÇÃO/ORIENTAÇÃO
      <<"A", "T", "E", "N", "D", "I", "M", "E", "N", "T", "O", " ", "D", "E",
        " ", "R", "E", "C", "E", "P", "U+00C7", "U+00C3", "O", "/", "O", "R", "I", "E",
        "N", "T", "A", "U+00C7", "U+00C3", "O">>,
      \* ATENDIMENTO MÉDICO
      <<"A", "T", "E", "N", "D", "I", "M", "E", "N", "T", "O", " ", "M", "U+00C9",
        "D", "I", "C", "O">>,
      \* ATENDIMENTO DE ENFERMAGEM
      <<"A", "T", "E", "N", "D", "I", "M", "E", "N", "T", "O", " ", "D", "E",
        " ", "E", "N", "F", "E", "R", "M", "A", "G", "E", "M">>,
      \* ATENDIMENTO REGULAÇÃO
      <<"A", "T", "E", "N", "D", "I", "M", "E", "N", "T", "O", " ", "R", "E",
        "G", "U", "L", "A", "U+00C7", "U+00C3", "O">>,
      \* ATENDIMENTO EQUIPE MULTI(PSICOLOGIA / SERVIÇO SOCIAL / NUTRIÇÃO)
      <<"A", "T", "E", "N", "D", "I", "M", "E", "N", "T", "O", " ", "E", "Q",
        "U", "I", "P", "E", " ", "M", "U", "L", "T", "I", "(", "P", "S", "I",
        "C", "O", "L", "O", "G", "I", "A", " ", "/", " ", "S", "E", "R", "V",
        "I", "U+00C7", "O", " ", "S", "O", "C", "I", "A", "L", " ", "/", " ", "N",
        "U", "T", "R", "I", "U+00C7", "U+00C3", "O", ")">>,
      \* ATENDIMENTO DE EXAMES DIAGNÓSTICOS
      <<"A", "T", "E", "N", "D", "I", "M", "E", "N", "T", "O", " ", "D", "E",
        " ", "E", "X", "A", "M", "E", "S", " ", "D", "I", "A", "G", "N", "U+00D3",
        "S", "T", "I", "C", "O", "S">>,
      \* ATENDIMENTO TELEFÔNICO
      <<"A", "T", "E", "N", "D", "I", "M", "E", "N", "T", "O", " ", "T", "E",
        "L", "E", "F", "U+00D4", "N", "I", "C", "O">>,
      \* LIMPEZA DA UNIDADE
      <<"L", "I", "M", "P", "E", "Z", "A", " ", "D", "A", " ", "U", "N", "I",
        "D", "A", "D", "E">>,
      \* INSTALAÇÕES
      <<"I", "N", "S", "T", "A", "L", "A", "U+00C7", "U+00D5", "E", "S">>,
      \* TEMPO DE ESPERA DO ATENDIMENTO
      <<"T", "E", "M", "P", "O", " ", "D", "E", " ", "E", "S", "P", "E", "R",
        "A", " ", "D", "O", " ", "A", "T", "E", "N", "D", "I", "M", "E", "N",
        "T", "O">>,
      \* Recomendaria esse hospital para seus amigos e familiares?
      <<"R", "e", "c", "o", "m", "e", "n", "d", "a", "r", "i", "a", " ", "e",
        "s", "s", "e", " ", "h", "o", "s", "p", "i", "t", "a", "l", " ", "p",
        "a", "r", "a", " ", "s", "e", "u", "s", " ", "a", "m", "i", "g", "o",
        "s", " ", "e", " ", "f", "a", "m", "i", "l", "i", "a", "r", "e", "s",
        "?">>,
      \* Teve confirmado em algum momento do seu atendimento seu nome e data de nascimento?
      <<"T", "e", "v", "e", " ", "c", "o", "n", "f", "i", "r", "m", "a", "d",
        "o", " ", "e", "m", " ", "a", "l", "g", "u", "m", " ", "m", "o", "m",
        "e", "n", "t", "o", " ", "d", "o", " ", "s", "e", "u", " ", "a", "t",
        "e", "n", "d", "i", "m", "e", "n", "t", "o", " ", "s", "e", "u", " ",
        "n", "o", "m", "e", " ", "e", " ", "d", "a", "t", "a", " ", "d", "e",
        " ", "n", "a", "s", "c", "i", "m", "e", "n", "t", "o", "?">>,
      \* Recebeu informações sobre a continuidade de seu tratamento?
      <<"R", "e", "c", "e", "b", "e", "u", " ", "i", "n", "f", "o", "r", "m",
        "a", "U+00E7", "U+00F5", "e", "s", " ", "s", "o", "b", "r", "e", " ", "a", " ",
        "c", "o", "n", "t", "i", "n", "u", "i", "d", "a", "d", "e", " ", "d",
        "e", " ", "s", "e", "u", " ", "t", "r", "a", "t", "a", "m", "e", "n",
        "t", "o", "?">>,
      \* Foi adequadamente orientado quanto a forma de utilização de suas medicações?
      <<"F", "o", "i", " ", "a", "d", "e", "q", "u", "a", "d", "a", "m", "e",
        "n", "t", "e", " ", "o", "r", "i", "e", "n", "t", "a", "d", "o", " ",
        "q", "u", "a", "n", "t", "o", " ", "a", " ", "f", "o", "r", "m", "a",
        " ", "d", "e", " ", "u", "t", "i", "l", "i", "z", "a", "U+00E7", "U+00E3", "o",
        " ", "d", "e", " ", "s", "u", "a", "s", " ", "m", "e", "d", "i", "c",
        "a", "U+00E7", "U+00F5", "e", "s", "?">>,
      \* SEU PROBLEMA DE SAÚDE FOI RESOLVIDO OU CONTROLADO NO HOSPITAL DIA ?
      <<"S", "E", "U", " ", "P", "R", "O", "B", "L", "E", "M", "A", " ", "D",
        "E", " ", "S", "A", "U+00DA", "D", "E", " ", "F", "O", "I", " ", "R", "E",
        "S", "O", "L", "V", "I", "D", "O", " ", "O", "U", " ", "C", "O", "N",
        "T", "R", "O", "L", "A", "D", "O", " ", "N", "O", " ", "H", "O", "S",
        "P", "I", "T", "A", "L", " ", "D", "I", "A", " ", "?">>,
      \* CASO NÃO, EXPLIQUE O PORQUÊ :
      <<"C", "A", "S", "O", " ", "N", "U+00C3", "O", ",", " ", "E", "X", "P", "L",
        "I", "Q", "U", "E", " ", "O", " ", "P", "O", "R", "Q", "U", "U+00CA", " ",
        ":">>,
      \* SE ALIMENTA AO MÍNIMO COM 5 PORÇÕES DE FRUTAS, VERDURAS E LEGUMES DIARIAMENTE?
      <<"S", "E", " ", "A", "L", "I", "M", "E", "N", "T", "A", " ", "A", "O",
        " ", "M", "U+00CD", "N", "I", "M", "O", " ", "C", "O", "M", " ", "5", " ",
        "P", "O", "R", "U+00C7", "U+00D5", "E", "S", " ", "D", "E", " ", "F", "R", "U",
        "T", "A", "S", ",", " ", "V", "E", "R", "D", "U", "R", "A", "S", " ",
        "E", " ", "L", "E", "G", "U", "M", "E", "S", " ", "D", "I", "A", "R",
        "I", "A", "M", "E", "N", "T", "E", "?">>,
      \* Você foi atendido com gentileza e empatia? Sentiu nossos colaboradores motivados?
      <<"V", "o", "c", "U+00EA", " ", "f", "o", "i", " ", "a", "t", "e", "n", "d",
        "i", "d", "o", " ", "c", "o", "m", " ", "g", "e", "n", "t", "i", "l",
        "e", "z", "a", " ", "e", " ", "e", "m", "p", "a", "t", "i", "a", "?",
        " ", "S", "e", "n", "t", "i", "u", " ", "n", "o", "s", "s", "o", "s",
        " ", "c", "o", "l", "a", "b", "o", "r", "a", "d", "o", "r", "e", "s",
        " ", "m", "o", "t", "i", "v", "a", "d", "o", "s", "?">>,
      \* Tempo de acesso e de retorno na especialidade
      <<"T", "e", "m", "p", "o", " ", "d", "e", " ", "a", "c", "e", "s", "s",
        "o", " ", "e", " ", "d", "e", " ", "r", "e", "t", "o", "r", "n", "o",
        " ", "n", "a", " ", "e", "s", "p", "e", "c", "i", "a", "l", "i", "d",
        "a", "d", "e">>,
      \* O QUE IMPORTA PARA VOCÊ EM NOSSO SERVIÇO:
      <<"O", " ", "Q", "U", "E", " ", "I", "M", "P", "O", "R", "T", "A", " ",
        "P", "A", "R", "A", " ", "V", "O", "C", "U+00CA", " ", "E", "M", " ", "N",
        "O", "S", "S", "O", " ", "S", "E", "R", "V", "I", "U+00C7", "O", ":">>,
      \* Data - Criação
      <<"D", "a", "t", "a", " ", "-", " ", "C", "r", "i", "a", "U+00E7", "U+00E3", "o">>,
      \* Cadastrador
      <<"C", "a", "d", "a", "s", "t", "r", "a", "d", "o", "r">>
    >>

\* the file before os.Create
NoFile == [bom |-> FALSE, header |-> <<>>, lines |-> <<>>]

\* the state of the loop before its first iteration, on a file just created
LoopStart(f) ==
    [file |-> f, count |-> 0, skipped |-> 0,
     prevPaciente |-> Empty, prevCreated |-> Empty,
     prevCreatedTime |-> ZeroTime, hasPrev |-> FALSE]

\* -d of a duration; the smallest duration is its own negative in 64 bits
Negated(d) ==
    IF d = MinDuration THEN MinDuration
    ELSE IF d.sec = 0 /\ d.nsec = 0 THEN [days |-> -d.days, sec |-> 0, nsec |-> 0]
    ELSE IF d.nsec = 0
    THEN [days |-> -d.days - 1, sec |-> SecondsPerDay - d.sec, nsec |-> 0]
    ELSE [days |-> -d.days - 1, sec |-> SecondsPerDay - 1 - d.sec,
          nsec |-> NanosPerSecond - d.nsec]

\* if d < 0 { d = -d }
Abs(d) == IF d.days < 0 THEN Negated(d) ELSE d

\* a faulty variant of WithinTolerance that excludes a difference of exactly sec
StrictlyWithinTolerance(cur, prev, sec) ==
    DurationLT(Abs(Sub(cur, prev)), Seconds(sec))

\* the tolerant comparison: the two times are within sec seconds
WithinTolerance(cur, prev, sec) ==
    DurationLE(Abs(Sub(cur, prev)), Seconds(sec))

\* a faulty variant of SameCreated that compares the timestamps up to the minute
SameCreatedMinute(created, prev) ==
    Len(created) = Len(prev)
    /\ \A i \in 1..Len(created) : i <= 16 => created[i] = prev[i]

\* the strict comparison of the two trimmed timestamp texts
SameCreated(created, prev) == created = prev

\* a faulty variant of Comparable that forgets the test of an empty patient
ComparableEmptyPaciente(st, paciente, created) ==
    st.hasPrev /\ created # Empty /\ paciente = st.prevPaciente

\* the rows the duplicate test applies to
Comparable(st, paciente, created) ==
    st.hasPrev /\ paciente # Empty /\ created # Empty /\ paciente = st.prevPaciente

\* the row (paciente, created) is dropped as a duplicate of the previous kept row
IsDuplicate(st, paciente, created, sec) ==
    /\ Comparable(st, paciente, created)
    /\ IF sec <= 0 THEN SameCreated(created, st.prevCreated)
       ELSE LET cur == parseCreated(created)
                okPrev == ~IsZero(st.prevCreatedTime)
            IN  IF cur.ok /\ okPrev
                THEN WithinTolerance(cur.time, st.prevCreatedTime, sec)
                ELSE SameCreated(created, st.prevCreated)

\* the previous-row state after a row is kept
Remember(st, paciente, created) ==
    [st EXCEPT !.prevPaciente = paciente, !.prevCreated = created,
               !.prevCreatedTime = parseCreated(created).time, !.hasPrev = TRUE]

\* a faulty variant of WriteRow that writes the row without counting it
WriteRowUncounted(st, record) ==
    [st EXCEPT !.file.lines = WriteLines(@, record)]

\* w.Write(record); count++
WriteRow(st, record) ==
    [st EXCEPT !.file.lines = WriteLines(@, record), !.count = @ + 1]

\* a faulty variant of Skip that also overwrites the previous-row state
SkipAndRemember(st, paciente, created) ==
    Remember([st EXCEPT !.skipped = @ + 1], paciente, created)

\* the state after a duplicate is skipped
Skip(st, paciente, created) == [st EXCEPT !.skipped = @ + 1]

\* one iteration of the loop over rows.Next(); f holds the flags
LoopBody(st, row, f) ==
    LET scanned == scanRowToStrings(row)
        record == IF f.repl THEN applyReplacements(scanned) ELSE scanned
        paciente == TrimSpace(record[Fld(1)])
        created == TrimSpace(record[Fld(22)])
    IN  IF f.dedupe /\ Len(record) >= NumFields
        THEN IF IsDuplicate(st, paciente, created, f.dedupeSec)
             THEN Skip(st, paciente, created)
             ELSE WriteRow(Remember(st, paciente, created), record)
        ELSE WriteRow(st, record)

RECURSIVE Export(_, _, _)
\* the loop run over a whole result set
Export(st, rows, f) ==
    IF rows = <<>> THEN st ELSE Export(LoopBody(st, Head(rows), f), Tail(rows), f)

(***************************************************************************)
(* buildPiePNGsFromCSV and renderPiePNG                                    *)
(***************************************************************************)
\* a faulty variant of IsExcluded that charts every question
IsExcludedNever(n) == FALSE

\* the question numbers left out of the charts
IsExcluded(n) == n = 16 \/ n = 20

\* one column per charted question: [Number, Index, Title], Index as in Go
questionColumns(headerRow) ==
    LET all == [n \in 1..NumQuestoes |->
                   [Number |-> n, Index |-> 1 + n,
                    Title |-> TrimSpace(headerRow[Fld(1 + n)])]]
        Charted(qc) == ~IsExcluded(qc.Number)
    IN  SelectSeq(all, Charted)

NoCounts == [k \in {} |-> 0]

\* counts[v]++
Increment(values, v) ==
    IF v \in DOMAIN values THEN [values EXCEPT ![v] = @ + 1]
    ELSE [k \in DOMAIN values \cup {v} |-> IF k = v THEN 1 ELSE values[k]]

\* a faulty variant of CountedAs that counts the cell's text as it is
CountedAsIs(v) == v

\* the label a non-empty trimmed cell is counted under
CountedAs(v) == replaceValue(v)

\* the counts of one question after a row of the file is read
Tally(values, qc, row) ==
    IF qc.Index >= Len(row) THEN values
    ELSE LET v == TrimSpace(row[Fld(qc.Index)])
         IN  IF v = Empty THEN values ELSE Increment(values, CountedAs(v))

RECURSIVE SumOver(_, _)
SumOver(values, keys) ==
    IF keys = {} THEN 0
    ELSE LET k == CHOOSE x \in keys : TRUE
         IN  values[k] + SumOver(values, keys \ {k})

\* the total renderPiePNG computes
Total(values) == SumOver(values, DOMAIN values)

\* the characters of the codes 32 to 95, in the order of their codes
AsciiUpper ==
    <<" ", "!", "\"", "#", "$", "%", "&", "'", "(", ")", "*", "+", ",",
      "-", ".", "/", "0", "1", "2", "3", "4", "5", "6", "7", "8", "9", ":",
      ";", "<", "=", ">", "?", "@", "A", "B", "C", "D", "E", "F", "G", "H",
      "I", "J", "K", "L", "M", "N", "O", "P", "Q", "R", "S", "T", "U", "V",
      "W", "X", "Y", "Z", "[", "\\", "]", "^", "_">>

\* the characters of the codes 97 to 126
AsciiLower ==
    <<"a", "b", "c", "d", "e", "f", "g", "h", "i", "j", "k", "l", "m", "n",
      "o", "p", "q", "r", "s", "t", "u", "v", "w", "x", "y", "z", "{", "|",
      "}", "~">>

\* the control characters and the characters outside ASCII that occur, each
\* with its code
OtherCodes ==
    {<<"\t", 9>>, <<"\n", 10>>, <<"", 11>>, <<"\f", 12>>, <<"\r", 13>>,
     <<"U+0085", 133>>, <<"U+00A0", 160>>, <<"U+00C3", 195>>,
     <<"U+00C7", 199>>, <<"U+00C9", 201>>, <<"U+00CA", 202>>,
     <<"U+00CD", 205>>, <<"U+00D3", 211>>, <<"U+00D4", 212>>,
     <<"U+00D5", 213>>, <<"U+00DA", 218>>, <<"U+00E3", 227>>,
     <<"U+00E7", 231>>, <<"U+00EA", 234>>, <<"U+00F5", 245>>,
     <<"U+1680", 5760>>, <<"U+2000", 8192>>, <<"U+2001", 8193>>,
     <<"U+2002", 8194>>, <<"U+2003", 8195>>, <<"U+2004", 8196>>,
     <<"U+2005", 8197>>, <<"U+2006", 8198>>, <<"U+2007", 8199>>,
     <<"U+2008", 8200>>, <<"U+2009", 8201>>, <<"U+200A", 8202>>,
     <<"U+2028", 8232>>, <<"U+2029", 8233>>, <<"U+202F", 8239>>,
     <<"U+205F", 8287>>, <<"U+3000", 12288>>}

\* the code of a character; UTF-8 keeps the order of the codes, so the bytes
\* of two Go strings compare as their characters do
CodePoint(c) ==
    IF \E p \in OtherCodes : p[1] = c
    THEN (CHOOSE p \in OtherCodes : p[1] = c)[2]
    ELSE IF \E i \in 1..Len(AsciiUpper) : AsciiUpper[i] = c
    THEN 31 + (CHOOSE i \in 1..Len(AsciiUpper) : AsciiUpper[i] = c)
    ELSE 96 + (CHOOSE i \in 1..Len(AsciiLower) : AsciiLower[i] = c)

RECURSIVE LessText(_, _)
\* a < b of two Go strings
LessText(a, b) ==
    IF b = <<>> THEN FALSE
    ELSE IF a = <<>> THEN TRUE
    ELSE IF Head(a) # Head(b) THEN CodePoint(Head(a)) < CodePoint(Head(b))
    ELSE LessText(Tail(a), Tail(b))

\* a faulty variant of less that ranks by count alone
lessByCount(x, y) == x.V > y.V

\* the less function given to sort.Slice
less(x, y) ==
    IF x.V # y.V THEN x.V > y.V ELSE LessText(x.K, y.K)

RECURSIVE Insert(_, _)
\* sort.Slice on a short slice is an insertion sort: the item moves towards
\* the front while it is less than the one before it
Insert(sorted, it) ==
    IF sorted = <<>> THEN <<it>>
    ELSE LET last == sorted[Len(sorted)]
         IN  IF less(it, last)
             THEN Append(Insert(SubSeq(sorted, 1, Len(sorted) - 1), it), last)
             ELSE Append(sorted, it)

RECURSIVE SortSlice(_)
SortSlice(items) ==
    IF items = <<>> THEN <<>>
    ELSE Insert(SortSlice(SubSeq(items, 1, Len(items) - 1)), items[Len(items)])

RECURSIVE Itoa(_)
\* %d of a number that is not negative
Itoa(n) ==
    IF n < 10 THEN <<Digits[n + 1]>>
    ELSE Append(Itoa(n \div 10), Digits[(n % 10) + 1])

(* float64 arithmetic.  A positive float64 is a number of at most 53 bits  *)
(* times a power of two; here it is [bits, scale]: the bits of the number, *)
(* the first one first, and the count of them that stand after the binary  *)
(* point.  Counts are below 2^30, so no exponent leaves the range of a     *)
(* float64 and float64(n) is n itself.                                     *)
MantissaBits == 53

RECURSIVE ToBits(_)
\* the bits of n > 0, none for 0
ToBits(n) == IF n = 0 THEN <<>> ELSE Append(ToBits(n \div 2), n % 2)

RECURSIVE FromBits(_)
FromBits(bits) ==
    IF bits = <<>> THEN 0
    ELSE 2 * FromBits(SubSeq(bits, 1, Len(bits) - 1)) + bits[Len(bits)]

RECURSIVE DivBits(_, _, _)
\* the next n bits of r / d after the binary point, r < d: [bits, rem].  The
\* long division is done by halves, the second half from the remainder of
\* the first
DivBits(r, d, n) ==
    IF n = 0 THEN [bits |-> <<>>, rem |-> r]
    ELSE IF n = 1
    THEN LET bit == IF 2 * r >= d THEN 1 ELSE 0
         IN  [bits |-> <<bit>>, rem |-> 2 * r - bit * d]
    ELSE LET first == DivBits(r, d, n \div 2)
             rest == DivBits(first.rem, d, n - (n \div 2))
         IN  [bits |-> first.bits \o rest.bits, rem |-> rest.rem]

RECURSIVE LeadingZeros(_, _)
\* the zeros of r / d between the binary point and its first one, 0 < r < d
LeadingZeros(r, d) == IF 2 * r >= d THEN 0 ELSE 1 + LeadingZeros(2 * r, d)

\* bits + 1: the last zero becomes a one and the ones after it zeros
Incremented(bits) ==
    LET zeros == {i \in 1..Len(bits) : bits[i] = 0}
        last == IF zeros = {} THEN 0
                ELSE CHOOSE i \in zeros : \A j \in zeros : j <= i
    IN  IF last = 0 THEN <<1>> \o [i \in 1..Len(bits) |-> 0]
        ELSE [i \in 1..Len(bits) |->
                 IF i < last THEN bits[i] ELSE IF i = last THEN 1 ELSE 0]

\* bits, which start with a one, rounded to the 53 bits of a float64, to the
\* nearest and to the even one of two that are as near; sticky tells that
\* the number has ones beyond bits.  [bits, dropped], dropped the count of
\* bits left out
Rounded(bits, sticky) ==
    IF Len(bits) <= MantissaBits THEN [bits |-> bits, dropped |-> 0]
    ELSE LET kept == SubSeq(bits, 1, MantissaBits)
             more == sticky \/ \E i \in (MantissaBits + 2)..Len(bits) : bits[i] = 1
             up == bits[MantissaBits + 1] = 1 /\ (more \/ kept[MantissaBits] = 1)
         IN  [bits |-> IF up THEN Incremented(kept) ELSE kept,
              dropped |-> Len(bits) - MantissaBits]

\* float64(v) / float64(d), 0 < v, 0 < d
Quotient(v, d) ==
    LET whole == ToBits(v \div d)
        zeros == IF whole = <<>> /\ v % d # 0 THEN LeadingZeros(v % d, d) ELSE 0
        n == MantissaBits + 1 - Len(whole) + zeros
        frac == DivBits(v % d, d, n)
        all == whole \o SubSeq(frac.bits, zeros + 1, n)
        r == Rounded(all, frac.rem # 0)
    IN  IF v % d = 0 THEN [bits |-> whole, scale |-> 0]
        ELSE [bits |-> r.bits, scale |-> n - r.dropped]

\* the number of 15 bits that stands at the k-th place of bits, the places
\* counted from the last bit
Limb(bits, k) ==
    LET hi == Len(bits) - 15 * (k - 1)
    IN  FromBits(SubSeq(bits, IF hi > 15 THEN hi - 14 ELSE 1, hi))

\* the 15 bits of x < 2^15
LimbBits(x) == [i \in 1..15 |-> (x \div 2 ^ (15 - i)) % 2]

RECURSIVE TimesFrom(_, _, _, _, _)
\* bits * c + carry from the k-th of the n limbs of bits on, for a small c
TimesFrom(bits, k, n, c, carry) ==
    IF k > n THEN ToBits(carry)
    ELSE LET t == Limb(bits, k) * c + carry
         IN  TimesFrom(bits, k + 1, n, c, t \div 2 ^ 15) \o LimbBits(t % 2 ^ 15)

\* bits * c, for a small c: the bits of the product from its first one on
Times(bits, c) ==
    IF bits = <<>> THEN <<>>
    ELSE LET t == TimesFrom(bits, 1, (Len(bits) + 14) \div 15, c, 0)
             ones == {i \in 1..Len(t) : t[i] = 1}
             first == CHOOSE i \in ones : \A j \in ones : i <= j
         IN  SubSeq(t, first, Len(t))

\* x * float64(c) for a small whole c
Product(x, c) ==
    IF x.bits = <<>> THEN x
    ELSE LET r == Rounded(Times(x.bits, c), FALSE)
         IN  [bits |-> r.bits, scale |-> x.scale - r.dropped]

\* (float64(v) / float64(total)) * 100
Percent(v, total) == Product(Quotient(v, total), 100)

\* the tenths %.1f prints of a float64: the nearest to its exact value, and
\* the even one of two that are as near
TenthsOf(x) ==
    LET n == Times(x.bits, 10)
        short == IF x.scale + 1 > Len(n) THEN x.scale + 1 - Len(n) ELSE 0
        padded == [i \in 1..short |-> 0] \o n
        cut == Len(padded) - x.scale
        whole == FromBits(SubSeq(padded, 1, cut))
        half == x.scale > 0 /\ padded[cut + 1] = 1
        more == \E i \in (cut + 2)..Len(padded) : padded[i] = 1
    IN  IF half /\ (more \/ whole % 2 = 1) THEN whole + 1 ELSE whole

\* the tenths of pct that fmt prints for the count v of total
Tenths(v, total) == IF v = 0 THEN 0 ELSE TenthsOf(Percent(v, total))

\* fmt.Sprintf("%s (%d - %.1f%%)", K, V, pct)
LegendLabel(it, total) ==
    LET t == Tenths(it.V, total)
    IN  it.K \o <<" ", "(">> \o Itoa(it.V) \o <<" ", "-", " ">>
             \o Itoa(t \div 10) \o <<".">> \o Itoa(t % 10) \o <<"%", ")">>

\* the orders in which "range values" may yield the keys of the map
Range(values) ==
    LET n == Cardinality(DOMAIN values)
    IN  {s \in [1..n -> DOMAIN values] :
            \A i, j \in 1..n : i # j => s[i] # s[j]}

\* renderPiePNG, keys being the order in which "range counts" yields the
\* labels: the error it returns, the total and the values of the chart
renderPiePNG(values, keys) ==
    IF Total(values) <= 0
    THEN [err |-> "empty counts", total |-> 0, legend |-> <<>>]
    ELSE LET items == [i \in 1..Len(keys) |-> [K |-> keys[i], V |-> values[keys[i]]]]
             sorted == SortSlice(items)
         IN  [err |-> NoError, total |-> Total(values),
              legend |-> [i \in 1..Len(sorted) |->
                             [Value |-> sorted[i].V,
                              Label |-> LegendLabel(sorted[i], Total(values))]]]

\* a faulty variant of HasValues that renders every question
HasValuesAlways(values) == TRUE

\* the zero-filter: a question whose counts are empty gets no slide
HasValues(values) == Cardinality(DOMAIN values) # 0

RECURSIVE SlidesFrom(_, _, _, _)
\* the loop over questionCols from position i: [err, slides]; iter[i] is the
\* order in which the labels of question i are ranged over
SlidesFrom(cols, cnts, iter, i) ==
    IF i > Len(cols) THEN [err |-> NoError, slides |-> <<>>]
    ELSE IF ~HasValues(cnts[i]) THEN SlidesFrom(cols, cnts, iter, i + 1)
    ELSE LET png == renderPiePNG(cnts[i], iter[i])
             rest == SlidesFrom(cols, cnts, iter, i + 1)
         IN  IF png.err # NoError THEN [err |-> png.err, slides |-> <<>>]
             ELSE IF rest.err # NoError THEN rest
             ELSE [err |-> NoError,
                   slides |-> <<[Number |-> cols[i].Number, Title |-> cols[i].Title,
                                 Total |-> png.total, Legend |-> png.legend]>>
                              \o rest.slides]

RECURSIVE RangeAll(_, _)
\* one order for each question from position i
RangeAll(cnts, i) ==
    IF i > Len(cnts) THEN {<<>>}
    ELSE {<<keys>> \o rest : keys \in Range(cnts[i]), rest \in RangeAll(cnts, i + 1)}

RECURSIVE TallyFromColumn(_, _, _, _)
\* "for i, qc := range questionCols" from position i on a row
TallyFromColumn(cols, cnts, row, i) ==
    IF i > Len(cols) THEN <<>>
    ELSE <<Tally(cnts[i], cols[i], row)>> \o TallyFromColumn(cols, cnts, row, i + 1)

\* the counts after one more row is read
TallyAll(cols, cnts, row) == TallyFromColumn(cols, cnts, row, 1)

RECURSIVE TallyFrom(_, _, _, _)
\* the read loop from the line at position i on: the counts at io.EOF, or
\* the read error
TallyFrom(cols, cnts, lines, i) ==
    LET row == csvReaderRead(lines, i)
    IN  IF row.eof THEN [err |-> NoError, counts |-> cnts]
        ELSE IF ~row.ok THEN [err |-> "read csv", counts |-> cnts]
        ELSE TallyFrom(cols, TallyAll(cols, cnts, row.fields), lines, row.next)

\* the counts after all the lines are read, or the read error
TallyFile(cols, cnts, lines) == TallyFrom(cols, cnts, lines, 1)

\* the counts buildPiePNGsFromCSV reaches on a whole file
Distributions(f) ==
    LET cols == questionColumns(f.header)
    IN  TallyFile(cols, [i \in 1..Len(cols) |-> NoCounts], f.lines).counts

(***************************************************************************)
(* the inputs of the runs                                                  *)
(***************************************************************************)
Auto == <<"a", "u", "t", "o">>

\* --start and --end texts: absent, four instants around 2025-12-01 00:00
\* -03:00, a date without a clock, a day that does not exist, and two texts
\* only the layout parser takes: half a second after Dec1 with an hour of one
\* digit and a comma, and the instant of Jan1 in a zone of -24:00
Dec1 == <<"2", "0", "2", "5", "-", "1", "2", "-", "0", "1", "T", "0", "0", ":", "0", "0", ":", "0", "0", "-", "0", "3", ":", "0", "0">>
Jan1 == <<"2", "0", "2", "6", "-", "0", "1", "-", "0", "1", "T", "0", "0", ":", "0", "0", ":", "0", "0", "-", "0", "3", ":", "0", "0">>
Dec1Utc == <<"2", "0", "2", "5", "-", "1", "2", "-", "0", "1", "T", "0", "3", ":", "0", "0", ":", "0", "0", "Z">>
Dec1UtcBefore == <<"2", "0", "2", "5", "-", "1", "2", "-", "0", "1", "T", "0", "2", ":", "5", "9", ":", "5", "9", "Z">>
DateOnly == <<"2", "0", "2", "5", "-", "1", "2", "-", "0", "1">>
Feb30 == <<"2", "0", "2", "5", "-", "0", "2", "-", "3", "0", "T", "0", "0", ":", "0", "0", ":", "0", "0", "Z">>
Dec1Loose == <<"2", "0", "2", "5", "-", "1", "2", "-", "0", "1", "T", "3", ":", "0", "0", ":", "0", "0", ",", "5", "Z">>
Jan1Loose == <<"2", "0", "2", "5", "-", "1", "2", "-", "3", "1", "T", "0", "3", ":", "0", "0", ":", "0", "0", "-", "2", "4", ":", "0", "0">>
Explicit ==
    {Empty, Dec1, Jan1, Dec1Utc, Dec1UtcBefore, DateOnly, Feb30, Dec1Loose,
     Jan1Loose}

\* --month and --year given together with --start/--end
MonthYearBeside == {<<0, 0>>, <<12, 2025>>, <<13, 2025>>, <<5, 1999>>}

Months == 0..13
Years == {0} \cup ((MinYear - 1)..(MaxYear + 1))

\* the values time.Now() takes in the runs
Nows ==
    {Date(2026, 1, 15, 10, 0, 0, 0, LocalOffset),
     Date(2026, 3, 31, 23, 59, 59, 0, LocalOffset),
     Date(2024, 3, 1, 0, 0, 0, 0, LocalOffset)}

\* created of the rows: seconds after 2025-12-31 23:59:30, in the zone the
\* driver scans DATETIME into (UTC)
Offsets == {0, 1, 30, 40, 80, 90}
CreatedAt(o) == At(Date(2025, 12, 31, 23, 59, 30 + o, 0, 0))

\* the patients of the rows: none, one, the same between blanks, and another
\* whose name holds a line break
Patients == {Empty, <<"A">>, <<"A", " ">>, <<"B", "\r", "\n", "b">>}

NoQuestoes == [i \in 1..NumQuestoes |-> Null]

\* the rows of the dedupe runs: any patient at any of the times
DedupeRows ==
    {[num_andar |-> Str(<<"3">>), nome_paciente |-> Str(p),
      questoes |-> [NoQuestoes EXCEPT ![1] = Str(<<"1">>)],
      created |-> c, cadastrador |-> Str(<<"5">>)] :
        p \in Patients, c \in {CreatedAt(o) : o \in Offsets}}

\* the cells of the report runs; the other questions of a row are NULL
Cells ==
    {Str(<<" ">>), Str(<<"1">>), Str(<<" ", "1", ".", "0">>), Str(Ruim),
     Str(<<"a", ";", "\r", "\n", "b">>)}

\* the questions the report runs fill: two charted ones and the two of free text
FilledQuestions == {1, 15, 16, 20}

\* the rows of the report runs: one cell in one question, 90 s after the
\* row before
ReportRows ==
    {[num_andar |-> Null, nome_paciente |-> Str(<<"A">>),
      questoes |-> [NoQuestoes EXCEPT ![q] = c],
      created |-> CreatedAt(90 * Len(read)), cadastrador |-> Str(<<"2">>)] :
        q \in FilledQuestions, c \in Cells}

\* WHERE eq.created >= ? AND eq.created < ?, the parameters being
\* periodStart and periodEnd: a comparison with NULL is not true, so a row
\* without created is not selected
Selected(row) ==
    /\ row.created.Valid
    /\ ~After(periodStart, row.created.Time)
    /\ After(periodEnd, row.created.Time)

\* ORDER BY eq.created ASC
InOrder(before, row) == ~After(before.created.Time, row.created.Time)

\* the arguments of the normalizers
Alphabet == {" ", "U+2003", ".", "0", "1", "5", "7", "8", "x"}
Texts == UNION {[1..n -> Alphabet] : n \in 0..MaxLen}
Arguments == Texts \cup Labels \cup {EdnaFullName}

\* the files given with --pptx-from.  Their headers: the header of the
\* export, its titles between blanks, one column less, one column more, and
\* none, of a file without a record
PaddedHeader == [i \in 1..Len(header) |-> <<" ">> \o header[i] \o <<"\t">>]
FromHeaders ==
    {header, PaddedHeader, SubSeq(header, 1, NumFields - 1),
     Append(header, <<"x">>), <<>>}

\* a line of 24 fields with "1" for questao1 and "7" for questao16
FullLine ==
    csvWrite([i \in 1..NumFields |->
                 IF i = Fld(2) THEN <<"1">> ELSE IF i = Fld(17) THEN <<"7">> ELSE Empty])

\* their lines: of 24 fields, of three fields, with "\r" at the end, empty,
\* the two halves of a record whose questao1 spans lines, and a bare quote
FromLines ==
    {FullLine,
     <<"3", ";", "A", ";", "5">>,
     <<"3", ";", "A", ";", "1", "\r">>,
     Empty,
     <<"\r">>,
     <<"3", ";", "A", ";", "\"", "1">>,
     <<"\"", ";", "2">>,
     <<"3", ";", "A", "\"">>}

ExistingFiles ==
    {[bom |-> b, header |-> h, lines |-> l] :
        b \in BOOLEAN, h \in FromHeaders \ {<<>>},
        l \in UNION {[1..n -> FromLines] : n \in 0..MaxFromLines}}
    \cup {[bom |-> FALSE, header |-> <<>>, lines |-> l] :
             l \in UNION {[1..n -> {Empty, <<"\r">>}] : n \in 0..MaxFromLines}}

\* the labels of the rendered distributions: the two of the example, and
\* two of the normalizer, one a prefix of the other and both with a
\* character beyond ASCII
Yes == <<"Y", "e", "s">>
No == <<"N", "o">>
ChartLabels == {Yes, No, Nao, NaoUtilizei}

\* the distributions given to renderPiePNG: some of the labels, each
\* counted at least once
ChartDistributions == UNION {[S -> 1..MaxCount] : S \in SUBSET ChartLabels}

\* a distribution and an order in which its labels are ranged over
ChartArguments ==
    UNION {{[counts |-> d, keys |-> k] : k \in Range(d)} : d \in ChartDistributions}

(***************************************************************************)
(* the actions                                                             *)
(***************************************************************************)
Flags == [repl |-> repl, dedupe |-> dedupe, dedupeSec |-> dedupeSec]

LoopNow ==
    [file |-> file, count |-> count, skipped |-> skipped,
     prevPaciente |-> prevPaciente, prevCreated |-> prevCreated,
     prevCreatedTime |-> prevCreatedTime, hasPrev |-> hasPrev]

SetLoop(st) ==
    /\ file' = st.file
    /\ count' = st.count
    /\ skipped' = st.skipped
    /\ prevPaciente' = st.prevPaciente
    /\ prevCreated' = st.prevCreated
    /\ prevCreatedTime' = st.prevCreatedTime
    /\ hasPrev' = st.hasPrev

\* main with --pptx-from: no export; the charts of the file that is there,
\* fatal without --pptx
PPTXFrom ==
    /\ pc = "period"
    /\ TrimSpace(pptxFrom) # Empty
    /\ IF TrimSpace(pptxOut) = Empty
       THEN /\ pc' = "fatal"
            /\ err' = "when using --pptx-from, you must set --pptx or --pptx=auto"
       ELSE /\ pc' = "pptx"
            /\ err' = err
    /\ UNCHANGED <<start, end, month, year, periodStart, periodEnd,
                   flagVars, loopVars, aggVars, normVars>>

\* main: resolvePeriod, fatal on an error
ResolvePeriod ==
    /\ pc = "period"
    /\ TrimSpace(pptxFrom) = Empty
    /\ \E now \in Nows :
          \E r \in {resolvePeriod(start, end, month, year, now)} :
              /\ periodStart' = r.s
              /\ periodEnd' = r.e
              /\ err' = r.err
              /\ pc' = IF r.err = NoError THEN "create" ELSE "fatal"
    /\ UNCHANGED <<start, end, month, year, flagVars, loopVars, aggVars, normVars>>

\* main: os.Create, the BOM, the header, the loop variables
CreateCSV ==
    /\ pc = "create"
    /\ SetLoop(LoopStart([bom |-> bom, header |-> header, lines |-> <<>>]))
    /\ read' = <<>>
    /\ pc' = "rows"
    /\ UNCHANGED <<periodVars, flagVars, aggVars, normVars>>

\* main: rows.Next() returns a row of Domain that the query selects, in the
\* order of the query; one iteration of the loop
RowsNext(Domain, max) ==
    /\ pc = "rows"
    /\ Len(read) < max
    /\ \E row \in Domain :
          /\ Selected(row)
          /\ read # <<>> => InOrder(read[Len(read)], row)
          /\ read' = Append(read, row)
          /\ \E st \in {LoopBody(LoopNow, row, Flags)} : SetLoop(st)
    /\ UNCHANGED <<pc, periodVars, flagVars, aggVars, normVars>>

\* main: rows.Next() returns false; flush; maybeGeneratePPTX returns at once
\* without --pptx
RowsDone ==
    /\ pc = "rows"
    /\ pc' = IF TrimSpace(pptxOut) = Empty THEN "done" ELSE "pptx"
    /\ UNCHANGED <<periodVars, flagVars, loopVars, aggVars, normVars>>

\* buildPiePNGsFromCSV: the header is read and the counters are made; a
\* file without a record has no header
OpenCSV ==
    /\ pc = "pptx"
    /\ IF file.header = <<>>
       THEN /\ pc' = "fatal"
            /\ err' = "read header"
            /\ UNCHANGED aggVars
       ELSE IF Len(file.header) < NumFields
       THEN /\ pc' = "fatal"
            /\ err' = "csv has too few columns"
            /\ UNCHANGED aggVars
       ELSE /\ pc' = "tally"
            /\ questionCols' = questionColumns(file.header)
            /\ counts' = [i \in 1..Len(questionCols') |-> NoCounts]
            /\ rpos' = 1
            /\ UNCHANGED <<err, slides>>
    /\ UNCHANGED <<start, end, month, year, periodStart, periodEnd,
                   flagVars, loopVars, normVars>>

\* buildPiePNGsFromCSV: one r.Read() and the counting of its row
TallyRow ==
    /\ pc = "tally"
    /\ \E row \in {csvReaderRead(file.lines, rpos)} :
           /\ ~row.eof
           /\ counts' = IF row.ok
                        THEN TallyAll(questionCols, counts, row.fields)
                        ELSE counts
           /\ err' = IF row.ok THEN NoError ELSE "read csv"
           /\ pc' = IF row.ok THEN "tally" ELSE "fatal"
           /\ rpos' = row.next
    /\ UNCHANGED <<start, end, month, year, periodStart, periodEnd,
                   flagVars, loopVars, questionCols, slides, normVars>>

\* buildPiePNGsFromCSV at io.EOF: the slides; maybeGeneratePPTX fails
\* when there is none
BuildSlides ==
    /\ pc = "tally"
    /\ csvReaderRead(file.lines, rpos).eof
    /\ \E iter \in RangeAll(counts, 1) :
       \E b \in {SlidesFrom(questionCols, counts, iter, 1)} :
           /\ slides' = b.slides
           /\ err' = IF b.err # NoError THEN b.err
                     ELSE IF Len(b.slides) = 0 THEN "no slides generated (no data?)"
                     ELSE NoError
           /\ pc' = IF b.err = NoError /\ Len(b.slides) > 0 THEN "done" ELSE "fatal"
    /\ UNCHANGED <<start, end, month, year, periodStart, periodEnd,
                   flagVars, loopVars, questionCols, rpos, counts, normVars>>

\* the normalizer fn applied to its own last result
Apply(f(_), name) ==
    /\ pc = "apply"
    /\ fn = name
    /\ Len(res) < 2
    /\ res' = Append(res, f(IF res = <<>> THEN arg ELSE res[Len(res)]))
    /\ UNCHANGED <<pc, periodVars, flagVars, loopVars, aggVars, fn, arg>>

\* renderPiePNG applied to a distribution
ApplyRenderPiePNG ==
    /\ pc = "apply"
    /\ fn = "renderPiePNG"
    /\ res = <<>>
    /\ res' = <<renderPiePNG(arg.counts, arg.keys)>>
    /\ UNCHANGED <<pc, periodVars, flagVars, loopVars, aggVars, fn, arg>>

ApplyReplaceValue == Apply(replaceValue, "replaceValue")
ApplyMapCadastrador == Apply(mapCadastrador, "mapCadastrador")

(***************************************************************************)
(* the specifications                                                      *)
(***************************************************************************)
IdlePeriod ==
    /\ periodStart = ZeroTime /\ periodEnd = ZeroTime /\ err = NoError
IdleLoop ==
    /\ read = <<>> /\ file = NoFile /\ count = 0 /\ skipped = 0
    /\ prevPaciente = Empty /\ prevCreated = Empty
    /\ prevCreatedTime = ZeroTime /\ hasPrev = FALSE
IdleAgg == questionCols = <<>> /\ rpos = 0 /\ counts = <<>> /\ slides = <<>>
IdleNorm == fn = "" /\ arg = Empty /\ res = <<>>
DefaultFlags ==
    /\ dedupe = TRUE /\ dedupeSec = 60 /\ repl = FALSE /\ bom = TRUE
    /\ pptxOut = Empty /\ pptxFrom = Empty

\* resolvePeriod on every style of period
InitPeriod ==
    /\ pc = "period"
    /\ \/ /\ start \in Explicit /\ end \in Explicit
          /\ <<start, end>> # <<Empty, Empty>>
          /\ \E my \in MonthYearBeside : month = my[1] /\ year = my[2]
       \/ /\ start = Empty /\ end = Empty
          /\ month \in Months /\ year \in Years
    /\ IdlePeriod /\ DefaultFlags /\ IdleLoop /\ IdleAgg /\ IdleNorm

SpecPeriod == InitPeriod /\ [][ResolvePeriod]_vars

\* the export of December 2025, with and without dedupe, strict and tolerant
InitExport ==
    /\ pc = "period"
    /\ start = Empty /\ end = Empty /\ month = 12 /\ year = 2025
    /\ dedupe \in BOOLEAN /\ dedupeSec \in {0, 60}
    /\ dedupe = FALSE => dedupeSec = 60
    /\ repl = FALSE /\ bom = TRUE /\ pptxOut = Empty /\ pptxFrom = Empty
    /\ IdlePeriod /\ IdleLoop /\ IdleAgg /\ IdleNorm

NextExport ==
    \/ ResolvePeriod
    \/ CreateCSV
    \/ RowsNext(DedupeRows, MaxRows)
    \/ RowsDone

SpecExport == InitExport /\ [][NextExport]_vars

\* the export of December 2025 followed by the charts, raw and replaced
InitReport ==
    /\ pc = "period"
    /\ start = Empty /\ end = Empty /\ month = 12 /\ year = 2025
    /\ dedupe = TRUE /\ dedupeSec = 60
    /\ repl \in BOOLEAN /\ bom = TRUE /\ pptxOut = Auto /\ pptxFrom = Empty
    /\ IdlePeriod /\ IdleLoop /\ IdleAgg /\ IdleNorm

NextReport ==
    \/ ResolvePeriod
    \/ CreateCSV
    \/ RowsNext(ReportRows, MaxReportRows)
    \/ RowsDone
    \/ OpenCSV
    \/ TallyRow
    \/ BuildSlides

SpecReport == InitReport /\ [][NextReport]_vars

\* the charts of a file that is there, with and without --pptx
InitFrom ==
    /\ pc = "period"
    /\ start = Empty /\ end = Empty /\ month = 0 /\ year = 0
    /\ dedupe = TRUE /\ dedupeSec = 60 /\ repl = FALSE /\ bom = TRUE
    /\ pptxOut \in {Empty, Auto}
    /\ pptxFrom = <<"a", ".", "c", "s", "v">>
    /\ file \in ExistingFiles
    /\ read = <<>> /\ count = 0 /\ skipped = 0
    /\ prevPaciente = Empty /\ prevCreated = Empty
    /\ prevCreatedTime = ZeroTime /\ hasPrev = FALSE
    /\ IdlePeriod /\ IdleAgg /\ IdleNorm

NextFrom ==
    \/ PPTXFrom
    \/ OpenCSV
    \/ TallyRow
    \/ BuildSlides

SpecFrom == InitFrom /\ [][NextFrom]_vars

\* a normalizer applied twice to every argument
InitNorm ==
    /\ pc = "apply"
    /\ fn \in {"replaceValue", "mapCadastrador"}
    /\ arg \in Arguments
    /\ res = <<>>
    /\ start = Empty /\ end = Empty /\ month = 0 /\ year = 0
    /\ IdlePeriod /\ DefaultFlags /\ IdleLoop /\ IdleAgg

NextNorm == ApplyReplaceValue \/ ApplyMapCadastrador

SpecNorm == InitNorm /\ [][NextNorm]_vars

\* renderPiePNG on every distribution, ranged over in every order
InitChart ==
    /\ pc = "apply"
    /\ fn = "renderPiePNG"
    /\ arg \in ChartArguments
    /\ res = <<>>
    /\ start = Empty /\ end = Empty /\ month = 0 /\ year = 0
    /\ IdlePeriod /\ DefaultFlags /\ IdleLoop /\ IdleAgg

NextChart == ApplyRenderPiePNG

SpecChart == InitChart /\ [][NextChart]_vars

Init == InitExport
Next == NextExport
Spec == SpecExport

(***************************************************************************)
(* what the properties below read off a state or a step                    *)
(***************************************************************************)
\* the patient of a row of the result set, as the loop compares it
PatientOf(row) == TrimSpace(nullToString(row.nome_paciente))

\* the creation timestamp text of a row of the result set
CreatedTextOf(row) ==
    IF row.created.Valid THEN FormatCreated(row.created.Time) ELSE Empty

\* the record the loop writes for a row
RecordOf(row) ==
    IF repl THEN applyReplacements(scanRowToStrings(row)) ELSE scanRowToStrings(row)

\* the step is an iteration of the loop, over the row NewRow
Stepped == pc = "rows" /\ Len(read') = Len(read) + 1
NewRow == read'[Len(read')]

\* the iteration dropped the row, or wrote it
Dropped == file' = file /\ skipped' = skipped + 1 /\ count' = count
Written ==
    /\ file' = [file EXCEPT !.lines = WriteLines(@, RecordOf(NewRow))]
    /\ count' = count + 1
    /\ skipped' = skipped

\* the lines written for the row at position i of the rows read
LinesOf(i) == Lines(csvWrite(RecordOf(read[i])))

\* the lines of the file end with the lines tail
EndsFile(tail) ==
    LET n == Len(file.lines)
    IN  Len(tail) <= n /\ SubSeq(file.lines, n - Len(tail) + 1, n) = tail

RECURSIVE LastKeptUpTo(_)
\* the last of the rows read up to position i whose lines end the file
LastKeptUpTo(i) ==
    IF \E tail \in {LinesOf(i)} : EndsFile(tail) THEN i ELSE LastKeptUpTo(i - 1)

\* the most recently written row: the last of the rows read whose lines end
\* the file (a row dropped after it has other lines, or is equal to it)
SomeKept == file.lines # <<>>
LastKept == LastKeptUpTo(Len(read))
KeptRecord == RecordOf(read[LastKept])
KeptPatient == TrimSpace(KeptRecord[Fld(1)])
KeptCreated == TrimSpace(KeptRecord[Fld(22)])

\* the rows read so far are those of patient p at the offsets offs
RowsAre(p, offs) ==
    /\ Len(read) = Len(offs)
    /\ \A i \in 1..Len(offs) :
          read[i].nome_paciente = Str(p) /\ read[i].created = CreatedAt(offs[i])


\* the whole seconds between two times of one era
SecondsApart(a, b) ==
    LET x == Instant(a)
        y == Instant(b)
        d == (x.day - y.day) * SecondsPerDay + (x.sec - y.sec)
    IN  IF d < 0 THEN -d ELSE d

RECURSIVE RowsOf(_, _)
\* the records csv.Reader.Read() gives from the line at position i to the
\* end of the lines
RowsOf(lines, i) ==
    LET row == csvReaderRead(lines, i)
    IN  IF row.eof THEN <<>> ELSE <<row.fields>> \o RowsOf(lines, row.next)

\* the data rows of the file, read back
FileRows == RowsOf(file.lines, 1)

\* the number of data rows of the file
RowsWritten == Len(FileRows)

RECURSIVE AsRead(_)
\* a field as csv.Reader gives it back: a "\r" right before a "\n" is gone
AsRead(field) ==
    IF field = Empty THEN Empty
    ELSE IF Len(field) >= 2 /\ field[1] = "\r" /\ field[2] = "\n"
    THEN AsRead(Tail(field))
    ELSE <<Head(field)>> \o AsRead(Tail(field))

\* question n has a non-empty cell in some of the rows
HasValueIn(rows, n) ==
    \E k \in 1..Len(rows) :
        Len(rows[k]) >= Fld(1 + n) /\ TrimSpace(rows[k][Fld(1 + n)]) # Empty

\* Every state of the loop has a step, the one that ends the loop (RowsDone),
\* so a property of the steps that has a conjunct on the state a step leaves
\* states that conjunct of every state of the loop.

(***************************************************************************)
(* C1. Tolerance mode (dedupe on, tolerance T > 0): a row whose patient is *)
(* non-empty and equal to the patient of the most recently kept row, and   *)
(* whose timestamp and the kept row's timestamp both parse, is dropped     *)
(* when the two times are at most T seconds apart and is written when they *)
(* are more than T seconds apart. With T = 60, two rows of one patient     *)
(* 30 s apart give one written row and two rows 90 s apart give two.       *)
(* The patient of a row is its name as the loop compares it, trimmed.      *)
(***************************************************************************)
C1_Step ==
    (dedupe /\ dedupeSec > 0 /\ Stepped /\ SomeKept) =>
        LET cur == parseCreated(CreatedTextOf(NewRow))
            kept == parseCreated(KeptCreated)
        IN  (/\ PatientOf(NewRow) # Empty
             /\ PatientOf(NewRow) = KeptPatient
             /\ cur.ok /\ kept.ok) =>
                IF SecondsApart(cur.time, kept.time) <= dedupeSec
                THEN Dropped ELSE Written

C1_Examples ==
    (pc = "rows" /\ dedupe /\ dedupeSec = 60) =>
        /\ RowsAre(<<"A">>, <<0, 30>>) => RowsWritten = 1
        /\ RowsAre(<<"A">>, <<0, 90>>) => RowsWritten = 2

C1_ToleranceMode == [][C1_Step /\ C1_Examples]_vars

\* a patient at +0 s, +30 s and +90 s, tolerance 60: the second row was
\* dropped and the third written
C1_Witness ==
    /\ dedupe /\ dedupeSec = 60 /\ pc = "rows"
    /\ RowsAre(<<"A">>, <<0, 30, 90>>)
    /\ skipped = 1 /\ count = 2 /\ RowsWritten = 2

(***************************************************************************)
(* C2. Strict mode (tolerance 0): a row with the same non-empty patient as *)
(* the most recently kept row is dropped if and only if its timestamp text *)
(* equals the kept row's timestamp text; any difference, even of one       *)
(* second, keeps both rows.  Every row the query selects has a timestamp   *)
(* (Selected), so the test of an empty one never decides.                  *)
(***************************************************************************)
C2_Step ==
    (dedupe /\ dedupeSec = 0 /\ Stepped /\ SomeKept
     /\ PatientOf(NewRow) # Empty /\ PatientOf(NewRow) = KeptPatient) =>
        /\ Dropped <=> CreatedTextOf(NewRow) = KeptCreated
        /\ ~Dropped => Written

C2_Examples ==
    (pc = "rows" /\ dedupe /\ dedupeSec = 0) =>
        /\ RowsAre(<<"A">>, <<0, 0>>) => RowsWritten = 1
        /\ RowsAre(<<"A">>, <<0, 1>>) => RowsWritten = 2

C2_StrictMode == [][C2_Step /\ C2_Examples]_vars

\* strict mode, a patient at +0 s, +0 s and +1 s: the second row was dropped
\* and the third, one second later, written
C2_Witness ==
    /\ dedupe /\ dedupeSec = 0 /\ pc = "rows"
    /\ RowsAre(<<"A">>, <<0, 0, 1>>)
    /\ skipped = 1 /\ count = 2 /\ RowsWritten = 2

(***************************************************************************)
(* C3. One-element lookback against the last kept row: with dedupe on,     *)
(* once a row is written the carried state (previous patient, previous     *)
(* timestamp text, previous parsed time) is that of the most recently      *)
(* written row; a dropped row leaves the state as it was and a written row *)
(* overwrites it. With tolerance 60, rows of one patient at +0 s, +40 s    *)
(* and +80 s give the rows at +0 s and +80 s.                              *)
(* A dropped row leaves the file as it was, so the state that equals the   *)
(* last written row in every state is unchanged by a drop.                 *)
(***************************************************************************)
C3_LastKept ==
    (dedupe /\ pc = "rows") =>
        /\ hasPrev <=> SomeKept
        /\ SomeKept =>
              LET kept == KeptRecord
                  created == TrimSpace(kept[Fld(22)])
              IN  /\ prevPaciente = TrimSpace(kept[Fld(1)])
                  /\ prevCreated = created
                  /\ prevCreatedTime = parseCreated(created).time
        /\ (dedupeSec = 60 /\ RowsAre(<<"A">>, <<0, 40, 80>>)) =>
              /\ RowsWritten = 2
              /\ FileRows[1][Fld(22)] = CreatedTextOf(read[1])
              /\ FileRows[2][Fld(22)] = CreatedTextOf(read[3])

\* tolerance 60, a patient at +0 s, +40 s and +80 s: the carried state is the
\* row at +80 s, after the row at +40 s was dropped
C3_Witness ==
    /\ dedupe /\ dedupeSec = 60 /\ pc = "rows"
    /\ RowsAre(<<"A">>, <<0, 40, 80>>)
    /\ skipped = 1 /\ RowsWritten = 2
    /\ prevCreated = CreatedTextOf(read[3])

(***************************************************************************)
(* C4. With dedupe on, in strict and in tolerance mode, a row whose        *)
(* patient is empty or whose timestamp is empty is always written, it      *)
(* overwrites the carried state with its values, and the row that follows  *)
(* it, when its patient and timestamp are both non-empty, is not dropped.  *)
(***************************************************************************)
Blank(row) == PatientOf(row) = Empty \/ CreatedTextOf(row) = Empty

C4_Step ==
    (dedupe /\ Stepped) =>
        /\ Blank(NewRow) =>
              /\ Written
              /\ prevPaciente' = PatientOf(NewRow)
              /\ prevCreated' = CreatedTextOf(NewRow)
              /\ prevCreatedTime' = parseCreated(CreatedTextOf(NewRow)).time
              /\ hasPrev'
        /\ (read # <<>> /\ Blank(read[Len(read)]) /\ ~Blank(NewRow)) => Written

C4_BlankRows == [][C4_Step]_vars

\* strict mode: two rows without patient at one time, then a patient at that
\* time: all three written, and the carried state is the third row
C4_Witness ==
    /\ dedupe /\ pc = "rows" /\ dedupeSec = 0
    /\ Len(read) = 3 /\ count = 3 /\ skipped = 0
    /\ \A i \in 1..2 : PatientOf(read[i]) = Empty /\ read[i].created = CreatedAt(0)
    /\ read[3].nome_paciente = Str(<<"A">>) /\ read[3].created = CreatedAt(0)
    /\ prevPaciente = <<"A">> /\ prevCreated = CreatedTextOf(read[3])

(***************************************************************************)
(* C5. Raw and replaced exports aggregate alike: when the charts of a run  *)
(* are built, the counts of every charted question equal the counts that   *)
(* buildPiePNGsFromCSV reaches on the export of the same rows written with *)
(* the other setting of --replace; a question holding the code 1 in one    *)
(* row and the text Ruim in another counts Ruim twice.                     *)
(***************************************************************************)
ChartsBuilt ==
    \/ pc = "done"
    \/ pc = "fatal" /\ err \in {"no slides generated (no data?)", "empty counts"}

\* the file the run would have written with --replace the other way
OtherExport ==
    Export(LoopStart([bom |-> bom, header |-> header, lines |-> <<>>]), read,
           [Flags EXCEPT !.repl = ~repl]).file

\* the position in counts of question n
ColumnOf(n) ==
    LET cols == questionColumns(header)
    IN  CHOOSE i \in 1..Len(cols) : cols[i].Number = n

C5_RawAndReplaced ==
    ChartsBuilt =>
        /\ counts = Distributions(OtherExport)
        /\ \A q \in FilledQuestions \ {16, 20} :
              (/\ Len(read) = 2
               /\ read[1].questoes[q] = Str(<<"1">>)
               /\ read[2].questoes[q] = Str(Ruim)) =>
                  /\ DOMAIN counts[ColumnOf(q)] = {Ruim}
                  /\ counts[ColumnOf(q)][Ruim] = 2

\* a raw export with the code 1 and then the text Ruim in question 1
C5_Witness ==
    /\ pc = "done" /\ ~repl
    /\ Len(read) = 2
    /\ read[1].questoes[1] = Str(<<"1">>)
    /\ read[2].questoes[1] = Str(Ruim)
    /\ counts[1][Ruim] = 2
    /\ file # OtherExport

(***************************************************************************)
(* C6. replaceValue is idempotent, replaceValue("1.0") = replaceValue("1"),*)
(* and mapCadastrador is idempotent: a second application of a normalizer  *)
(* to its own result changes nothing.                                      *)
(***************************************************************************)
C6_Idempotent ==
    pc = "apply" =>
        /\ Len(res) = 2 => res[2] = res[1]
        /\ (fn = "replaceValue" /\ arg = <<"1", ".", "0">> /\ Len(res) >= 1) =>
              res[1] = replaceValue(<<"1">>) /\ res[1] # arg

\* replaceValue applied twice to " 7.", and mapped to a label the first time
C6_Witness ==
    /\ pc = "apply" /\ fn = "replaceValue"
    /\ arg = <<" ", "7", ".">>
    /\ res = <<Nao, Nao>>

(***************************************************************************)
(* C7. replaceValue maps the integer-like codes 1..7, with an optional     *)
(* fractional part, to their labels, and returns every other argument      *)
(* unchanged, also a text that starts with a digit 1..7 followed by a dot  *)
(* and text that is no digit.                                              *)
(***************************************************************************)
\* a code 1..7, optionally followed by a dot and digits, spaces around it
IsNumericCode(v) ==
    LET s == TrimSpace(v)
    IN  /\ s # Empty
        /\ s[1] \in {"1", "2", "3", "4", "5", "6", "7"}
        /\ Len(s) = 1 \/ (s[2] = "." /\ \A i \in 3..Len(s) : IsDigit(s[i]))

LabelOf(c) ==
    CASE c = "1" -> Ruim [] c = "2" -> Boa [] c = "3" -> Regular
      [] c = "4" -> Excelente [] c = "5" -> NaoUtilizei [] c = "6" -> Sim
      [] c = "7" -> Nao

C7_OnlyNumericCodes ==
    (pc = "apply" /\ fn = "replaceValue" /\ Len(res) >= 1) =>
        IF IsNumericCode(arg) THEN res[1] = LabelOf(TrimSpace(arg)[1])
        ELSE res[1] = arg

(***************************************************************************)
(* C8. Month/year mode (no --start, no --end, not both month and year 0):  *)
(* for a month in 1..12 and a year in 2000..2100 the period is from the    *)
(* first of the month 00:00 local to the first of the following month      *)
(* 00:00 local, December rolling over to January of the next year, and     *)
(* the end is after the start; any other month or year fails and yields    *)
(* no interval.                                                            *)
(***************************************************************************)
Resolved == pc # "period" /\ pc # "apply"
MonthYearMode == start = Empty /\ end = Empty /\ ~(month = 0 /\ year = 0)
NoInterval ==
    pc = "fatal" /\ err # NoError /\ periodStart = ZeroTime /\ periodEnd = ZeroTime

FirstOf(y, m) ==
    [day |-> DaysFromCivil(y, m, 1), sec |-> 0, nsec |-> 0, off |-> LocalOffset]

C8_MonthYear ==
    (Resolved /\ MonthYearMode) =>
        IF month \in 1..12 /\ year \in 2000..2100
        THEN /\ pc # "fatal" /\ err = NoError
             /\ periodStart = FirstOf(year, month)
             /\ periodEnd = IF month = 12 THEN FirstOf(year + 1, 1)
                            ELSE FirstOf(year, month + 1)
             /\ CivilFromDays(periodStart.day) = [y |-> year, m |-> month, d |-> 1]
             /\ periodEnd.day - periodStart.day = DaysIn(year, month)
             /\ After(periodEnd, periodStart)
        ELSE NoInterval

\* December 2025 resolved to [2025-12-01, 2026-01-01)
C8_Witness ==
    /\ pc = "create" /\ MonthYearMode
    /\ month = 12 /\ year = 2025
    /\ CivilFromDays(periodStart.day) = [y |-> 2025, m |-> 12, d |-> 1]
    /\ CivilFromDays(periodEnd.day) = [y |-> 2026, m |-> 1, d |-> 1]

(***************************************************************************)
(* C9. Explicit mode (--start or --end given): the period resolves only    *)
(* when both are given, both parse and the end is strictly after the       *)
(* start; otherwise it fails. --month and --year have no part in it.       *)
(***************************************************************************)
ExplicitMode == start # Empty \/ end # Empty

\* the order in time of the well-formed texts of Explicit; 0 for the others
Rank(t) ==
    CASE t = Dec1UtcBefore -> 1
      [] t \in {Dec1, Dec1Utc} -> 2
      [] t = Dec1Loose -> 3
      [] t \in {Jan1, Jan1Loose} -> 4
      [] OTHER -> 0

C9_Explicit ==
    (Resolved /\ ExplicitMode) =>
        IF Rank(start) > 0 /\ Rank(end) > Rank(start)
        THEN /\ pc # "fatal" /\ err = NoError
             /\ periodStart = parseRFC3339(start).time
             /\ periodEnd = parseRFC3339(end).time
             /\ After(periodEnd, periodStart)
        ELSE NoInterval

\* a valid pair resolved beside a month that is no month
C9_Witness ==
    /\ pc = "create"
    /\ start = Dec1UtcBefore /\ end = Dec1
    /\ month = 13 /\ year = 2025
    /\ Sub(periodEnd, periodStart) = Seconds(1)

(***************************************************************************)
(* C10. Zero-filter: when the charts of a run are built, a charted         *)
(* question has a slide if and only if its column of the file has a cell   *)
(* that is not empty after trimming; every chart drawn has a total of at   *)
(* least 1, renderPiePNG never fails with empty counts, and the slides are *)
(* in ascending order of question number.                                  *)
(***************************************************************************)
\* the column of question n has a non-empty cell in some data row of the file
ColumnHasValue(n) == HasValueIn(FileRows, n)

HasSlide(n) == \E i \in 1..Len(slides) : slides[i].Number = n

C10_ZeroFilter ==
    /\ err # "empty counts"
    /\ ChartsBuilt =>
          /\ LET rows == FileRows
             IN  \A n \in (1..20) \ {16, 20} : HasSlide(n) <=> HasValueIn(rows, n)
          /\ \A i \in 1..Len(slides) : slides[i].Total >= 1
          /\ \A i, j \in 1..Len(slides) :
                i < j => slides[i].Number < slides[j].Number

\* question 15 filled by the first row, question 1 by the second: two slides,
\* question 1 first
C10_Witness ==
    /\ pc = "done"
    /\ Len(read) = 2
    /\ read[1].questoes[15] = Str(<<" ", "1", ".", "0">>)
    /\ read[2].questoes[1] = Str(<<"a", ";", "\r", "\n", "b">>)
    /\ Len(slides) = 2
    /\ slides[1].Number = 1 /\ slides[2].Number = 15

(***************************************************************************)
(* C11. Chart renderer ordering: for every distribution whose total is     *)
(* positive, renderPiePNG emits one legend entry per label, in descending  *)
(* order of count and, among equal counts, in ascending order of the label *)
(* text; the entries are the same for every order in which the map is      *)
(* ranged over.  {Yes: 3, No: 1}, total 4, gives "Yes (3 - 75.0%)" before  *)
(* "No (1 - 25.0%)".  The order of the claim is one order of the labels,   *)
(* and the runs take every order of ranging over the map, so that the      *)
(* legend of a distribution is the same in all of them.                    *)
(***************************************************************************)
Rendered == pc = "apply" /\ fn = "renderPiePNG" /\ res # <<>>

\* the entry of the legend for label k of the distribution d
EntryOf(d, k) ==
    [Value |-> d[k], Label |-> LegendLabel([K |-> k, V |-> d[k]], Total(d))]

\* the labels in the order of the claim
Ranked(d, keys) ==
    \A i, j \in 1..Len(keys) :
        i < j => \/ d[keys[i]] > d[keys[j]]
                 \/ d[keys[i]] = d[keys[j]] /\ LessText(keys[i], keys[j])

YesNo == [k \in {Yes, No} |-> IF k = Yes THEN 3 ELSE 1]

C11_LegendOrder ==
    (Rendered /\ Total(arg.counts) > 0) =>
        LET d == arg.counts
            legend == res[1].legend
        IN  /\ res[1].err = NoError
            /\ res[1].total = Total(d)
            /\ \E keys \in Range(d) :
                  /\ Ranked(d, keys)
                  /\ legend = [i \in 1..Len(keys) |-> EntryOf(d, keys[i])]
            /\ d = YesNo =>
                  /\ legend[1].Label = Yes \o <<" ", "(", "3", " ", "-", " ", "7", "5", ".", "0", "%", ")">>
                  /\ legend[2].Label = No \o <<" ", "(", "1", " ", "-", " ", "2", "5", ".", "0", "%", ")">>

\* a tie of three labels ranged over in descending order of the text, and a
\* fourth label with a larger count ranged over last
C11_Witness ==
    /\ Rendered
    /\ arg.keys = <<Yes, NaoUtilizei, Nao, No>>
    /\ arg.counts[No] = 2
    /\ \A k \in {Yes, NaoUtilizei, Nao} : arg.counts[k] = 1
    /\ Len(res[1].legend) = 4
    /\ res[1].legend[1] = EntryOf(arg.counts, No)
    /\ res[1].legend[2] = EntryOf(arg.counts, Nao)
    /\ res[1].legend[3] = EntryOf(arg.counts, NaoUtilizei)
    /\ res[1].legend[4] = EntryOf(arg.counts, Yes)

(***************************************************************************)
(* C12, as claimed.  The free-text questions 16 and 20 are exempt only     *)
(* from the mapping of numeric codes, not from aggregation: an export      *)
(* whose column of question 16 or 20 has a non-empty cell yields a         *)
(* distribution and a slide for that question.                             *)
(***************************************************************************)
FreeText == {16, 20}

C12_AsClaimed ==
    ChartsBuilt => \A q \in FreeText : ColumnHasValue(q) => HasSlide(q)

(***************************************************************************)
(* C12, as the code has it.  The free-text questions 16 and 20 are exempt  *)
(* from the mapping of numeric codes and from aggregation as well: the     *)
(* export writes their cells as they are, the aggregator keeps counts for  *)
(* the 18 other questions only, and no slide is made for question 16 or 20 *)
(* whatever their columns hold; an export whose only non-empty question    *)
(* cells are in those columns yields no slide at all.                      *)
(***************************************************************************)
C12_FreeTextLeftOut ==
    /\ pc \in {"tally", "done"} =>
          /\ Len(counts) = NumQuestoes - Cardinality(FreeText)
          /\ Len(questionCols) = Len(counts)
          /\ \A i \in 1..Len(counts) : questionCols[i].Number \notin FreeText
    /\ ChartsBuilt =>
          LET rows == FileRows
          IN  /\ Len(rows) = Len(read) =>
                    \A k \in 1..Len(read) : \A q \in FreeText :
                        rows[k][Fld(1 + q)] = AsRead(nullToString(read[k].questoes[q]))
              /\ \A q \in FreeText : ~HasSlide(q)
              /\ (\A n \in (1..NumQuestoes) \ FreeText : ~HasValueIn(rows, n)) =>
                    pc = "fatal" /\ slides = <<>>

\* a replaced export with the code 1 in question 16 and in question 1: the
\* cell of question 16 is written as it is, and the only slide is question 1
C12_Witness ==
    /\ pc = "done" /\ repl
    /\ Len(read) = 2
    /\ read[1].questoes[16] = Str(<<"1">>)
    /\ read[2].questoes[1] = Str(<<"1">>)
    /\ FileRows[1][Fld(17)] = <<"1">>
    /\ FileRows[2][Fld(2)] = Ruim
    /\ ColumnHasValue(16)
    /\ Len(slides) = 1 /\ slides[1].Number = 1

(***************************************************************************)
(* C13. Row conservation and order in the export loop: after any prefix of *)
(* the row stream has been processed, rows written + rows skipped = rows   *)
(* read; the written rows are a subsequence of the rows read, in their     *)
(* order; the first row of the stream is always written; and with dedupe   *)
(* disabled skipped stays 0 and every row read is written.                 *)
(***************************************************************************)
RECURSIVE LinesFrom(_)
\* the lines written for each of the rows read from position i on, were all
\* of them written
LinesFrom(i) ==
    IF i > Len(read) THEN <<>> ELSE <<LinesOf(i)>> \o LinesFrom(i + 1)

RECURSIVE Flat(_)
\* the lines of a file that holds the rows whose lines are given
Flat(all) == IF all = <<>> THEN <<>> ELSE Head(all) \o Flat(Tail(all))

\* the lines of the file from position p on start with the lines given
StartsAt(p, lines) ==
    /\ p + Len(lines) - 1 <= Len(file.lines)
    /\ SubSeq(file.lines, p, p + Len(lines) - 1) = lines

RECURSIVE HoldsRows(_, _, _, _)
\* the lines of the file from position p on are those of n of the rows from
\* position i on, in their order
HoldsRows(all, p, i, n) ==
    IF i > Len(all) THEN p = Len(file.lines) + 1 /\ n = 0
    ELSE \/ /\ n > 0
            /\ StartsAt(p, all[i])
            /\ HoldsRows(all, p + Len(all[i]), i + 1, n - 1)
         \/ HoldsRows(all, p, i + 1, n)

C13_Conservation ==
    pc = "rows" =>
        \E all \in {LinesFrom(1)} :
            /\ count + skipped = Len(read)
            /\ HoldsRows(all, 1, 1, count)
            /\ read # <<>> =>
                  /\ SomeKept /\ StartsAt(1, all[1])
                  /\ HoldsRows(all, 1 + Len(all[1]), 2, count - 1)
            /\ ~dedupe => (skipped = 0 /\ file.lines = Flat(all))

\* three rows read with dedupe on, the second one dropped; the first one
\* holds a line break, and the two rows written are three lines of the file
\* and two records for its reader
C13_Witness ==
    /\ pc = "rows" /\ dedupe
    /\ Len(read) = 3
    /\ count = 2 /\ skipped = 1
    /\ file.lines = LinesOf(1) \o LinesOf(3)
    /\ LinesOf(2) # LinesOf(3)
    /\ Len(LinesOf(1)) = 2 /\ Len(file.lines) = 3
    /\ RowsWritten = 2
====
